---- MODULE Spec2Model ----
(***************************************************************************)
(* Model of SW_DATA.py: the batch orchestrator process_files and the       *)
(* helpers it calls (get_custom_property, get_material, the inline mass,   *)
(* sheet-metal and bounding-box blocks).  The CAD application is an        *)
(* external party: every automation call either returns a value or raises, *)
(* chosen nondeterministically.                                            *)
(*                                                                         *)
(* Text values are sequences of one-character strings so that strip() and  *)
(* the substring test are computed and not assumed.                        *)
(* Quantities are integers in a fixed-point unit chosen so that the        *)
(* code's "multiply, then round to d decimals" is a rounding division by   *)
(* ScaleDiv:                                                               *)
(*   mass 1e-6 kg -> 0.01 g, volume 1e-12 m^3 -> 0.01 mm^3,                *)
(*   area 1e-9 m^2 -> 0.01 mm^2, box 1e-6 m -> 0.01 mm,                    *)
(*   thickness 1e-7 m -> 0.001 mm.                                         *)
(***************************************************************************)
EXTENDS Integers, Sequences, FiniteSets, TLC

VARIABLES
    file_list, get_mass, get_dims, get_sm, get_props,  \* arguments of process_files
    pc,            \* position in process_files
    i,             \* 1-based index of the file of the current iteration
    swApp,         \* TRUE once GetActiveObject returned the handle
    results_list,  \* the list process_files returns
    row,           \* the record under construction for the current file
    failed,        \* the extraction blocks whose calls failed for the current file
    calls,         \* the automation calls issued so far, in order
    raised,        \* TRUE once an exception reached the outer handler
    u_pc, u_model, u_name, u_ret,   \* unit run of get_custom_property
    s_pc, s_feats, s_get_sm, s_doc_type, s_row  \* unit run of the sheet-metal block

vars == << file_list, get_mass, get_dims, get_sm, get_props, pc, i, swApp,
           results_list, row, failed, calls, raised,
           u_pc, u_model, u_name, u_ret,
           s_pc, s_feats, s_get_sm, s_doc_type, s_row >>

batchVars == << file_list, get_mass, get_dims, get_sm, get_props, pc, i, swApp,
                results_list, row, failed, calls, raised >>
propVars == << u_pc, u_model, u_name, u_ret >>
smVars == << s_pc, s_feats, s_get_sm, s_doc_type, s_row >>

----------------------------------------------------------------------------
(* Bounds *)

MaxFiles == 2
MaxFeats == 2

----------------------------------------------------------------------------
(* Text *)

EmptyText == << >>
Whitespace == {" ", "\t"}

RECURSIVE lstrip(_)
lstrip(s) ==
    IF s = << >> THEN s
    ELSE IF Head(s) \in Whitespace THEN lstrip(Tail(s)) ELSE s

RECURSIVE rstrip(_)
rstrip(s) ==
    IF s = << >> THEN s
    ELSE IF s[Len(s)] \in Whitespace THEN rstrip(SubSeq(s, 1, Len(s) - 1)) ELSE s

strip(s) == rstrip(lstrip(s))

\* Python's  sub in s
Contains(sub, s) ==
    \E k \in 0..(Len(s) - Len(sub)) : SubSeq(s, k + 1, k + Len(sub)) = sub

SW_Material == << "S","W","-","M","a","t","e","r","i","a","l" >>
NA_Assembly == << "N","/","A"," ","(","A","s","s","e","m","b","l","y",")" >>
Not_Specified == << "N","o","t"," ","S","p","e","c","i","f","i","e","d" >>

----------------------------------------------------------------------------
(* Outcome of one automation call *)

Raised == [raises |-> TRUE, val |-> EmptyText]
Ret(v) == [raises |-> FALSE, val |-> v]

----------------------------------------------------------------------------
(* Paths *)

Paths ==
    { [dir |-> "d1", stem |-> "a", ext |-> ".SLDPRT"],
      [dir |-> "d2", stem |-> "a", ext |-> ".sldasm"] }

basename(p) == << p.stem, p.ext >>
splitext_ext(p) == p.ext
lower(e) ==
    CASE e = ".SLDPRT" -> ".sldprt"
      [] e = ".SLDASM" -> ".sldasm"
      [] OTHER -> e

doc_type_of(p) == IF lower(splitext_ext(p)) = ".sldprt" THEN 1 ELSE 2

----------------------------------------------------------------------------
(* Rounding *)

ScaleDiv == 10

\* round(): to nearest, ties to even
round(n, d) ==
    LET q == n \div d
        r == n % d
    IN  IF 2 * r < d THEN q
        ELSE IF 2 * r > d THEN q + 1
        ELSE IF q % 2 = 0 THEN q ELSE q + 1

abs(x) == IF x < 0 THEN -x ELSE x
Min2(a, b) == IF a <= b THEN a ELSE b
Max2(a, b) == IF a >= b THEN a ELSE b

\* sorted([a, b, c])
sorted3(a, b, c) ==
    LET lo == Min2(a, Min2(b, c))
        hi == Max2(a, Max2(b, c))
    IN  << lo, a + b + c - lo - hi, hi >>

----------------------------------------------------------------------------
(* Records *)

\* row[k] = v
Put(r, k, v) == (k :> v) @@ r

PropNames == {"Part Number", "Description", "Revision", "Material"}
PropsKeys == {"Part Number", "Description", "Revision"}
MassKeys == {"Mass (g)", "Volume (mm^3)", "Surface Area (mm^2)"}
SheetMetalKeys == {"Is Sheet Metal", "Thickness (mm)"}
DimsKeys == {"Length (mm)", "Width (mm)", "Height (mm)"}

----------------------------------------------------------------------------
(* get_custom_property.  model.cfg[n] is what the active configuration's   *)
(* property manager does for name n (lines 54-56), model.gen[n] what the   *)
(* general custom tab does (lines 62-63): raise, or return resolved_val.   *)

get_custom_property(model, prop_name) ==
    LET first == model.cfg[prop_name]
        second == model.gen[prop_name]
    IN  IF first.raises THEN EmptyText
        ELSE IF strip(first.val) # EmptyText THEN first.val
        ELSE IF second.raises THEN EmptyText
        ELSE IF strip(second.val) # EmptyText THEN second.val
        ELSE EmptyText

(* get_material.  model.native is the outcome of lines 83-84: raise, or    *)
(* the mat_name GetMaterialPropertyName2 returns.                          *)
get_material(model, doc_type) ==
    IF doc_type # 1 THEN NA_Assembly
    ELSE LET mat_prop == get_custom_property(model, "Material")
         IN  IF mat_prop # EmptyText /\ ~Contains(SW_Material, mat_prop)
                THEN mat_prop
             ELSE IF model.native.raises THEN Not_Specified
             ELSE IF model.native.val # EmptyText THEN model.native.val
             ELSE Not_Specified

----------------------------------------------------------------------------
(* The four extraction blocks of process_files, each as row -> row *)

\* 1. Properties (lines 143-151)
PropertiesBlock(r, gp, doc_type, model) ==
    LET r1 == IF gp
                 THEN Put(Put(Put(r,
                        "Part Number", get_custom_property(model, "Part Number")),
                        "Description", get_custom_property(model, "Description")),
                        "Revision", get_custom_property(model, "Revision"))
                 ELSE r
    IN  IF gp /\ doc_type = 1
           THEN Put(r1, "Material", get_material(model, doc_type))
           ELSE Put(r1, "Material", EmptyText)

\* MassBlock with the innermost handler doing nothing instead of zero-filling
MassBlock_NoZeroFill(r, gm, m) ==
    IF ~gm THEN r
    ELSE IF m.primary = "ok"
        THEN Put(Put(Put(r,
                "Mass (g)", round(m.Mass, ScaleDiv)),
                "Volume (mm^3)", round(m.Volume, ScaleDiv)),
                "Surface Area (mm^2)", round(m.SurfaceArea, ScaleDiv))
    ELSE IF m.legacy = "ok"
        THEN Put(Put(Put(r,
                "Volume (mm^3)", round(m.Volume, ScaleDiv)),
                "Surface Area (mm^2)", round(m.SurfaceArea, ScaleDiv)),
                "Mass (g)", round(m.Mass, ScaleDiv))
    ELSE IF m.legacy = "falsy"
        THEN Put(Put(Put(r, "Mass (g)", 0), "Volume (mm^3)", 0), "Surface Area (mm^2)", 0)
    ELSE r

\* 2. Mass properties (lines 154-186).  m.primary: CreateMassProperty path
\* "ok" or "raise"; m.legacy: GetMassProperties "ok", "falsy" or "raise".
LegacyVals(m) == << 0, 0, 0, m.Volume, m.SurfaceArea, m.Mass >>

MassBlock(r, gm, m) ==
    IF ~gm THEN r
    ELSE IF m.primary = "ok"
        THEN Put(Put(Put(r,
                "Mass (g)", round(m.Mass, ScaleDiv)),
                "Volume (mm^3)", round(m.Volume, ScaleDiv)),
                "Surface Area (mm^2)", round(m.SurfaceArea, ScaleDiv))
    ELSE IF m.legacy = "ok"
        THEN LET vals == LegacyVals(m)
             IN  Put(Put(Put(r,
                    "Volume (mm^3)", round(vals[4], ScaleDiv)),
                    "Surface Area (mm^2)", round(vals[5], ScaleDiv)),
                    "Mass (g)", round(vals[6], ScaleDiv))
    ELSE Put(Put(Put(r, "Mass (g)", 0), "Volume (mm^3)", 0), "Surface Area (mm^2)", 0)

\* 3. Sheet metal (lines 189-216).  fe.enum: FeatureManager.GetFeatures
\* "ok", "falsy" or "raise"; fe.list: the features.  A feature f:
\*   f.disp  FALSE when Dispatch(f_obj) raises
\*   f.tn    outcome of reading GetTypeName2 (val is the type name)
\*   f.def   "ok", "fallback" (the call raises, the attribute read works),
\*           "raise" (both raise) or "falsy"
\*   f.thk   outcome of reading Thickness
RECURSIVE ScanFeatures(_)
ScanFeatures(fs) ==
    IF fs = << >> THEN [is_sm |-> FALSE, thk |-> 0]
    ELSE LET f == Head(fs)
             tn == IF f.tn.raises THEN "" ELSE f.tn.val
         IN  IF ~f.disp THEN [is_sm |-> FALSE, thk |-> 0]
             ELSE IF tn = "SheetMetal"
                THEN [is_sm |-> TRUE,
                      thk |-> IF f.def \in {"raise", "falsy"} THEN 0
                              ELSE IF f.thk.raises THEN 0
                              ELSE f.thk.val]
             ELSE ScanFeatures(Tail(fs))

\* The sheet-metal block with is_sm set only after the thickness was read
RECURSIVE ScanFeatures_LateFlag(_)
ScanFeatures_LateFlag(fs) ==
    IF fs = << >> THEN [is_sm |-> FALSE, thk |-> 0]
    ELSE LET f == Head(fs)
             tn == IF f.tn.raises THEN "" ELSE f.tn.val
         IN  IF ~f.disp THEN [is_sm |-> FALSE, thk |-> 0]
             ELSE IF tn = "SheetMetal"
                THEN IF f.def \in {"raise", "falsy"} \/ f.thk.raises
                        THEN [is_sm |-> FALSE, thk |-> 0]
                        ELSE [is_sm |-> TRUE, thk |-> f.thk.val]
             ELSE ScanFeatures_LateFlag(Tail(fs))

SheetMetalBlock_LateFlag(r, gs, doc_type, fe) ==
    IF ~(gs /\ doc_type = 1) THEN r
    ELSE LET res == IF fe.enum = "ok" THEN ScanFeatures_LateFlag(fe.list)
                    ELSE [is_sm |-> FALSE, thk |-> 0]
         IN  Put(Put(r, "Is Sheet Metal", res.is_sm),
                 "Thickness (mm)", IF res.is_sm THEN round(res.thk, ScaleDiv) ELSE 0)

SheetMetalBlock(r, gs, doc_type, fe) ==
    IF ~(gs /\ doc_type = 1) THEN r
    ELSE LET res == IF fe.enum = "ok" THEN ScanFeatures(fe.list)
                    ELSE [is_sm |-> FALSE, thk |-> 0]
         IN  Put(Put(r, "Is Sheet Metal", res.is_sm),
                 "Thickness (mm)", IF res.is_sm THEN round(res.thk, ScaleDiv) ELSE 0)

\* 4. Dimensions (lines 219-238).  d.first: GetPartBox(True) for a part,
\* GetBox(0) for an assembly; d.second: the active configuration's GetBox()
\* ("noconf" when GetActiveConfiguration returns nothing).
GetBoxOf(doc_type, d) ==
    IF doc_type = 1
       THEN IF d.first = "ok" THEN d.box
            ELSE IF d.first = "raise" /\ d.second = "ok" THEN d.box
            ELSE << >>
       ELSE IF d.first = "ok" THEN d.box ELSE << >>

DimensionsBlock(r, gd, doc_type, d) ==
    IF ~gd THEN r
    ELSE LET box == GetBoxOf(doc_type, d)
         IN  IF box = << >> THEN r
             ELSE LET dims == sorted3(abs(box[4] - box[1]),
                                      abs(box[5] - box[2]),
                                      abs(box[6] - box[3]))
                  IN  Put(Put(Put(r,
                        "Length (mm)", round(dims[3], ScaleDiv)),
                        "Width (mm)", round(dims[2], ScaleDiv)),
                        "Height (mm)", round(dims[1], ScaleDiv))

\* lines 136-140
NewRow(file_path) ==
    Put(Put(Put(<< >>, "File Name", basename(file_path)), "Status", "Success"),
        "Path", file_path)

\* FailedRow carrying the path as the success row does
FailedRow_WithPath(file_path) ==
    Put(Put(Put(<< >>, "File Name", basename(file_path)), "Status", "Failed to Open"),
        "Path", file_path)

\* lines 126-129
FailedRow(file_path) ==
    Put(Put(<< >>, "File Name", basename(file_path)), "Status", "Failed to Open")

----------------------------------------------------------------------------
(* What the application may answer *)

Src == { Raised, Ret(EmptyText), Ret(<< " " >>), Ret(<< "P" >>),
         Ret(<< " ", "P", " " >>), Ret(SW_Material \o << "@", "a" >>) }

Masses ==
    { [primary |-> p, legacy |-> l, Mass |-> 25004, Volume |-> 30015, SurfaceArea |-> 45026]
        : p \in {"ok", "raise"}, l \in {"ok", "falsy", "raise"} }

SM(def, thk) == [disp |-> TRUE, tn |-> Ret("SheetMetal"), def |-> def, thk |-> thk]
Features ==
    { [disp |-> TRUE, tn |-> Ret("Boss"), def |-> "ok", thk |-> Raised],
      [disp |-> TRUE, tn |-> [raises |-> TRUE, val |-> ""], def |-> "ok", thk |-> Raised],
      [disp |-> FALSE, tn |-> Ret("SheetMetal"), def |-> "ok", thk |-> Ret(20015)],
      SM("ok", Ret(12345)), SM("ok", Ret(20015)), SM("fallback", Ret(12345)),
      SM("ok", Raised), SM("raise", Raised), SM("falsy", Raised) }

RECURSIVE SeqsUpTo(_, _)
SeqsUpTo(S, n) ==
    IF n = 0 THEN { << >> }
    ELSE LET shorter == SeqsUpTo(S, n - 1)
         IN  shorter \cup { Append(q, x) : q \in shorter, x \in S }

FeatureEnvs(n) ==
    { [enum |-> "ok", list |-> l] : l \in SeqsUpTo(Features, n) }
    \cup { [enum |-> e, list |-> << >>] : e \in {"falsy", "raise"} }

Box == << 0, 0, 0, 10004, 50015, 5026 >>
Dims ==
    { [first |-> f, second |-> "ok", box |-> Box] : f \in {"ok", "falsy"} }
    \cup { [first |-> "raise", second |-> sc, box |-> Box]
            : sc \in {"ok", "falsy", "raise", "noconf"} }

\* a document of which nothing has been asked yet
NoModel ==
    [cfg |-> [n \in PropNames |-> Raised], gen |-> [n \in PropNames |-> Raised],
     native |-> Raised,
     mass |-> [primary |-> "raise", legacy |-> "raise", Mass |-> 0, Volume |-> 0, SurfaceArea |-> 0],
     feats |-> [enum |-> "raise", list |-> << >>],
     dims |-> [first |-> "raise", second |-> "raise", box |-> Box]]

\* the answers the batch run draws from: for every block at least one answer
\* that succeeds and one that fails
BatchSrc == { Raised, Ret(<< " " >>), Ret(<< "P" >>) }
BatchGen == { Raised, Ret(<< "P" >>) }
BatchNatives == { Raised }
BatchFeatureEnvs ==
    { e \in FeatureEnvs(1) : e.enum = "raise" \/ e.list = << SM("ok", Ret(12345)) >> }
BatchDims == { d \in Dims : d.second \in {"ok", "raise"} /\ d.first # "falsy" }

----------------------------------------------------------------------------
(* process_files *)

FileLists == SeqsUpTo(Paths, MaxFiles)

\* One automation call as the application sees it.  file is the index of
\* the file being processed (0 in the outer handler); res is "ok", "falsy"
\* (nothing returned) or "raise".  An extraction block is logged as one
\* call, by the first automation call it makes.
Call(op, f, k, on, res) == [op |-> op, file |-> f, kind |-> k, on |-> on, res |-> res]

cur == file_list[i]
doc_type == doc_type_of(cur)

args == << file_list, get_mass, get_dims, get_sm, get_props >>
unitVars == << u_pc, u_model, u_name, u_ret, s_pc, s_feats, s_get_sm, s_doc_type, s_row >>

PropIdle ==
    /\ u_pc = "idle" /\ u_model = << >> /\ u_name = "" /\ u_ret = EmptyText

SMIdle ==
    /\ s_pc = "idle" /\ s_feats = << >>
    /\ s_get_sm = FALSE /\ s_doc_type = 1 /\ s_row = << >>

BatchIdle ==
    /\ file_list = << >> /\ get_mass = FALSE /\ get_dims = FALSE
    /\ get_sm = FALSE /\ get_props = FALSE
    /\ pc = "idle" /\ i = 1 /\ swApp = FALSE /\ results_list = << >>
    /\ row = << >> /\ failed = {} /\ calls = << >> /\ raised = FALSE

Init ==
    /\ file_list \in FileLists
    /\ get_mass \in BOOLEAN /\ get_dims \in BOOLEAN
    /\ get_sm \in BOOLEAN /\ get_props \in BOOLEAN
    /\ pc = "start" /\ i = 1 /\ swApp = FALSE
    /\ results_list = << >> /\ row = << >> /\ failed = {}
    /\ calls = << >> /\ raised = FALSE
    /\ PropIdle /\ SMIdle

\* lines 99-100: GetActiveObject returns the handle
GetAppOk ==
    /\ pc = "start"
    /\ swApp' = TRUE /\ pc' = "loop"
    /\ UNCHANGED << args, i, results_list, row, failed, calls, raised, unitVars >>

\* lines 101-103: GetActiveObject raises; return []
GetAppFails ==
    /\ pc = "start"
    /\ pc' = "done"
    /\ results_list' = << >>
    /\ UNCHANGED << args, i, swApp, row, failed, calls, raised, unitVars >>

\* line 118: swApp.DocumentVisible(False, doc_type)
VisibleOff ==
    /\ pc = "loop" /\ i <= Len(file_list)
    /\ \E res \in {"ok", "raise"} :
        /\ calls' = Append(calls, Call("DocumentVisible", i, doc_type, FALSE, res))
        /\ pc' = IF res = "ok" THEN "open" ELSE "handler"
        /\ raised' = (res = "raise")
    /\ UNCHANGED << args, i, swApp, results_list, row, failed, unitVars >>

\* lines 123-140: OpenDoc6 returns a document, Dispatch wraps it, the row
\* is started
OpenOk ==
    /\ pc = "open"
    /\ calls' = Append(calls, Call("OpenDoc6", i, doc_type, FALSE, "ok"))
    /\ row' = NewRow(cur)
    /\ failed' = {}
    /\ pc' = "props"
    /\ UNCHANGED << args, i, swApp, results_list, raised, unitVars >>

\* OpenFails that moves on without appending a record
OpenFails_NoRecord ==
    /\ pc = "open"
    /\ calls' = Append(calls, Call("OpenDoc6", i, doc_type, FALSE, "falsy"))
    /\ i' = i + 1
    /\ pc' = "loop"
    /\ UNCHANGED << args, swApp, results_list, row, failed, raised, unitVars >>

\* lines 125-130: OpenDoc6 returns nothing
OpenFails ==
    /\ pc = "open"
    /\ calls' = Append(calls, Call("OpenDoc6", i, doc_type, FALSE, "falsy"))
    /\ results_list' = Append(results_list, FailedRow(cur))
    /\ i' = i + 1
    /\ pc' = "loop"
    /\ UNCHANGED << args, swApp, row, failed, raised, unitVars >>

\* line 123 raises ("raise"), or line 133 does: Dispatch of the document
\* OpenDoc6 returned ("ok")
OpenRaises ==
    /\ pc = "open"
    /\ \E res \in {"ok", "raise"} :
        calls' = Append(calls, Call("OpenDoc6", i, doc_type, FALSE, res))
    /\ pc' = "handler" /\ raised' = TRUE
    /\ UNCHANGED << args, i, swApp, results_list, row, failed, unitVars >>

\* lines 143-151
Properties ==
    /\ pc = "props"
    /\ \E c \in (IF get_props THEN BatchSrc ELSE {Raised}),
          g \in (IF get_props THEN BatchGen ELSE {Raised}),
          nat \in (IF get_props /\ doc_type = 1 THEN BatchNatives ELSE {Raised}) :
        LET model == [NoModel EXCEPT !.cfg = [n \in PropNames |-> c],
                                     !.gen = [n \in PropNames |-> g],
                                     !.native = nat]
            noprop == c.raises \/ (strip(c.val) = EmptyText /\ g.raises)
        IN  /\ row' = PropertiesBlock(row, get_props, doc_type, model)
            /\ failed' = failed
                \cup (IF get_props /\ noprop THEN {"properties"} ELSE {})
                \cup (IF get_props /\ doc_type = 1 /\ noprop /\ nat.raises
                      THEN {"material"} ELSE {})
    /\ calls' = calls
        \o (IF get_props
            THEN << Call("get_custom_property", i, doc_type, FALSE, "ok") >> ELSE << >>)
        \o (IF get_props /\ doc_type = 1
            THEN << Call("get_material", i, doc_type, FALSE, "ok") >> ELSE << >>)
    /\ pc' = "mass"
    /\ UNCHANGED << args, i, swApp, results_list, raised, unitVars >>

\* lines 154-186
MassProperties ==
    /\ pc = "mass"
    /\ \E m \in (IF get_mass THEN Masses ELSE {NoModel.mass}) :
        /\ row' = MassBlock(row, get_mass, m)
        /\ failed' = failed
            \cup (IF get_mass /\ m.primary # "ok" /\ m.legacy # "ok" THEN {"mass"} ELSE {})
    /\ calls' = IF get_mass
                THEN Append(calls, Call("CreateMassProperty", i, doc_type, FALSE, "ok"))
                ELSE calls
    /\ pc' = "sm"
    /\ UNCHANGED << args, i, swApp, results_list, raised, unitVars >>

\* lines 189-216
SheetMetal ==
    /\ pc = "sm"
    /\ \E fe \in (IF get_sm /\ doc_type = 1 THEN BatchFeatureEnvs ELSE {NoModel.feats}) :
        /\ row' = SheetMetalBlock(row, get_sm, doc_type, fe)
        /\ failed' = failed
            \cup (IF get_sm /\ doc_type = 1 /\ fe.enum = "raise" THEN {"sheet metal"} ELSE {})
    /\ calls' = IF get_sm /\ doc_type = 1
                THEN Append(calls, Call("GetFeatures", i, doc_type, FALSE, "ok"))
                ELSE calls
    /\ pc' = "dims"
    /\ UNCHANGED << args, i, swApp, results_list, raised, unitVars >>

\* lines 219-238
Dimensions ==
    /\ pc = "dims"
    /\ \E d \in (IF get_dims THEN BatchDims ELSE {NoModel.dims}) :
        /\ row' = DimensionsBlock(row, get_dims, doc_type, d)
        /\ failed' = failed
            \cup (IF get_dims /\ GetBoxOf(doc_type, d) = << >> THEN {"dimensions"} ELSE {})
    /\ calls' = IF get_dims
                THEN Append(calls, Call("GetBox", i, doc_type, FALSE, "ok"))
                ELSE calls
    /\ pc' = "close"
    /\ UNCHANGED << args, i, swApp, results_list, raised, unitVars >>

\* TitleRaises with the failure swallowed: the close call is skipped and
\* the loop goes on
TitleRaises_Swallowed ==
    /\ pc = "close"
    /\ results_list' = Append(results_list, row)
    /\ row' = << >>
    /\ pc' = "vis_on"
    /\ UNCHANGED << args, i, swApp, failed, calls, raised, unitVars >>

\* lines 241-243: GetTitle() raises and so does reading the attribute; the
\* row is dropped with the iteration
TitleRaises ==
    /\ pc = "close"
    /\ row' = << >> /\ failed' = {}
    /\ pc' = "handler" /\ raised' = TRUE
    /\ UNCHANGED << args, i, swApp, results_list, calls, unitVars >>

\* lines 241-246: the title is read (by the call or by the fallback),
\* CloseDoc returns, the row is appended
CloseOk ==
    /\ pc = "close"
    /\ calls' = Append(calls, Call("CloseDoc", i, doc_type, FALSE, "ok"))
    /\ results_list' = Append(results_list, row)
    /\ row' = << >>
    /\ pc' = "vis_on"
    /\ UNCHANGED << args, i, swApp, failed, raised, unitVars >>

\* line 245 raises; the row is dropped with the iteration
CloseRaises ==
    /\ pc = "close"
    /\ calls' = Append(calls, Call("CloseDoc", i, doc_type, FALSE, "raise"))
    /\ row' = << >> /\ failed' = {}
    /\ pc' = "handler" /\ raised' = TRUE
    /\ UNCHANGED << args, i, swApp, results_list, unitVars >>

\* line 247: swApp.DocumentVisible(True, doc_type)
VisibleOn ==
    /\ pc = "vis_on"
    /\ \E res \in {"ok", "raise"} :
        /\ calls' = Append(calls, Call("DocumentVisible", i, doc_type, TRUE, res))
        /\ pc' = IF res = "ok" THEN "loop" ELSE "handler"
        /\ raised' = (res = "raise")
        /\ i' = IF res = "ok" THEN i + 1 ELSE i
    /\ failed' = {}
    /\ UNCHANGED << args, swApp, results_list, row, unitVars >>

\* lines 249-250, 259: the loop is over; return results_list
Finish ==
    /\ pc = "loop" /\ i > Len(file_list)
    /\ pc' = "done"
    /\ UNCHANGED << args, i, swApp, results_list, row, failed, calls, raised, unitVars >>

\* Handler that drops the records gathered so far
Handler_Discards ==
    /\ pc = "handler"
    /\ \E r1 \in {"ok", "raise"}, r2 \in {"ok", "raise"} :
        calls' = calls
            \o << Call("DocumentVisible", 0, 1, TRUE, r1) >>
            \o (IF r1 = "ok" THEN << Call("DocumentVisible", 0, 2, TRUE, r2) >> ELSE << >>)
    /\ results_list' = << >>
    /\ pc' = "done"
    /\ UNCHANGED << args, i, swApp, row, failed, raised, unitVars >>

\* lines 252-259: the outer handler, then return results_list.  The second
\* restore call is inside the same try as the first.
Handler ==
    /\ pc = "handler"
    /\ \E r1 \in {"ok", "raise"}, r2 \in {"ok", "raise"} :
        calls' = calls
            \o << Call("DocumentVisible", 0, 1, TRUE, r1) >>
            \o (IF r1 = "ok" THEN << Call("DocumentVisible", 0, 2, TRUE, r2) >> ELSE << >>)
    /\ pc' = "done"
    /\ UNCHANGED << args, i, swApp, results_list, row, failed, raised, unitVars >>

Next ==
    \/ GetAppOk \/ GetAppFails
    \/ VisibleOff
    \/ OpenOk \/ OpenFails \/ OpenRaises
    \/ Properties \/ MassProperties \/ SheetMetal \/ Dimensions
    \/ TitleRaises \/ CloseOk \/ CloseRaises
    \/ VisibleOn
    \/ Finish
    \/ Handler

Spec == Init /\ [][Next]_vars

----------------------------------------------------------------------------
(* get_custom_property on its own: every pair of answers of the two sources *)

InitProp ==
    /\ BatchIdle /\ SMIdle
    /\ u_pc = "call"
    /\ u_name \in PropNames
    /\ \E c \in Src, g \in Src :
        u_model = [NoModel EXCEPT !.cfg = [n \in PropNames |-> c],
                                  !.gen = [n \in PropNames |-> g]]
    /\ u_ret = EmptyText

PropertyCall ==
    /\ u_pc = "call"
    /\ u_ret' = get_custom_property(u_model, u_name)
    /\ u_pc' = "ret"
    /\ UNCHANGED << batchVars, smVars, u_model, u_name >>

NextProp == PropertyCall

SpecProp == InitProp /\ [][NextProp]_vars

----------------------------------------------------------------------------
(* The sheet-metal block on its own: every feature list up to MaxFeats *)

InitSM ==
    /\ BatchIdle /\ PropIdle
    /\ s_pc = "call"
    /\ s_feats \in FeatureEnvs(MaxFeats)
    /\ s_get_sm \in BOOLEAN
    /\ s_doc_type \in {1, 2}
    /\ \E p \in Paths : doc_type_of(p) = s_doc_type /\ s_row = NewRow(p)

SheetMetalCall ==
    /\ s_pc = "call"
    /\ s_row' = SheetMetalBlock(s_row, s_get_sm, s_doc_type, s_feats)
    /\ s_pc' = "ret"
    /\ UNCHANGED << batchVars, propVars, s_feats, s_get_sm, s_doc_type >>

NextSM == SheetMetalCall

SpecSM == InitSM /\ [][NextSM]_vars

----------------------------------------------------------------------------
(* Properties *)

CallIdx == 1..Len(calls)
RecIdx == 1..Len(results_list)
Rec(k) == results_list[k]
IsSuccess(k) == Rec(k)["Status"] = "Success"
FileCalls(k, op) == { p \in CallIdx : calls[p].file = k /\ calls[p].op = op }
HasCall(k, op, res) == \E p \in FileCalls(k, op) : calls[p].res = res

\* C1 (as claimed): when process_files returns, the result has exactly one
\* record per selected file and the i-th record's File Name is that of the
\* i-th file, whatever the application does.
C1_OneRecordPerFile ==
    pc = "done" =>
        /\ Len(results_list) = Len(file_list)
        /\ \A k \in 1..Len(file_list) : Rec(k)["File Name"] = basename(file_list[k])

\* C1 (amended): the result never has more records than files and its i-th
\* record's File Name is that of the i-th file; it has exactly one record per
\* file when the handle was obtained and no exception reached the outer
\* handler.
C1_PrefixInOrder ==
    /\ Len(results_list) <= Len(file_list)
    /\ \A k \in RecIdx : Rec(k)["File Name"] = basename(file_list[k])
    /\ (pc = "done" /\ swApp /\ ~raised) => Len(results_list) = Len(file_list)

C1_Witness ==
    /\ pc = "done" /\ swApp /\ ~raised
    /\ Len(file_list) = 2 /\ file_list[1] # file_list[2]
    /\ Len(results_list) = 2
    /\ Rec(1)["Status"] = "Failed to Open" /\ Rec(2)["Status"] = "Success"

\* C2 (as claimed): with all four options disabled every file that opened
\* yields a record whose key set is exactly {File Name, Status, Path}.
C2_OnlyBaseKeys ==
    (~get_mass /\ ~get_dims /\ ~get_sm /\ ~get_props) =>
        \A k \in RecIdx :
            IsSuccess(k) => DOMAIN Rec(k) = {"File Name", "Status", "Path"}

Requested(p) ==
    (IF get_props THEN PropsKeys \cup {"Material"} ELSE {})
    \cup (IF get_mass THEN MassKeys ELSE {})
    \cup (IF get_sm /\ doc_type_of(p) = 1 THEN SheetMetalKeys ELSE {})
    \cup (IF get_dims THEN DimsKeys ELSE {})

\* C3 (as claimed): a file that opens contributes exactly one record with
\* Status "Success" holding the key of every field the enabled options
\* request, also when that extractor's calls fail.  (The count is stated
\* for runs in which no exception reached the outer handler.)
C3_AllRequestedKeys ==
    /\ \A k \in RecIdx : IsSuccess(k) => Requested(file_list[k]) \subseteq DOMAIN Rec(k)
    /\ (pc = "done" /\ ~raised) =>
        \A k \in 1..Len(file_list) :
            HasCall(k, "OpenDoc6", "ok") => (k \in RecIdx /\ IsSuccess(k))

\* C3 (amended): a file that opens and whose close call returns contributes
\* exactly one record, with Status "Success", holding the keys of every
\* enabled option among properties (with Material), mass and sheet metal on a
\* part, with the default values when those extractors' calls fail; the three
\* dimension keys are present exactly when the dimensions option is enabled
\* and a bounding box was obtained.
C3_KeysExceptDimensions ==
    /\ \A k \in RecIdx : IsSuccess(k) =>
        /\ (Requested(file_list[k]) \ DimsKeys) \subseteq DOMAIN Rec(k)
        /\ DimsKeys \subseteq DOMAIN Rec(k) \/ DimsKeys \cap DOMAIN Rec(k) = {}
        /\ ~get_dims => DimsKeys \cap DOMAIN Rec(k) = {}
    /\ pc = "vis_on" =>
        LET r == Rec(Len(results_list))
        IN  /\ r["Status"] = "Success"
            /\ DimsKeys \subseteq DOMAIN r <=> (get_dims /\ "dimensions" \notin failed)
            /\ "properties" \in failed => \A n \in PropsKeys : r[n] = EmptyText
            /\ "material" \in failed => r["Material"] = Not_Specified
            /\ "mass" \in failed => \A n \in MassKeys : r[n] = 0
            /\ "sheet metal" \in failed =>
                (r["Is Sheet Metal"] = FALSE /\ r["Thickness (mm)"] = 0)
    /\ \A k \in 1..Len(file_list) :
        HasCall(k, "CloseDoc", "ok") <=> (k \in RecIdx /\ IsSuccess(k))

C3_Witness ==
    /\ pc = "vis_on" /\ Len(results_list) = 2
    /\ doc_type = 1
    /\ get_props /\ get_mass /\ get_sm /\ get_dims
    /\ failed = {"properties", "material", "mass", "sheet metal", "dimensions"}

\* the outer handler's restore: the call for parts is issued, and the call
\* for assemblies after it unless the first one raised
RestoreAttempted ==
    \E p \in FileCalls(0, "DocumentVisible") :
        /\ calls[p].on /\ calls[p].kind = 1
        /\ calls[p].res = "ok" =>
            \E q \in FileCalls(0, "DocumentVisible") :
                q > p /\ calls[q].on /\ calls[q].kind = 2

\* C4 (as claimed): after an exception escaped the per-file loop the value
\* returned holds no records, and the restore of visibility was attempted.
C4_Discarded ==
    (pc = "done" /\ raised) => (results_list = << >> /\ RestoreAttempted)

\* C4 (amended): after an exception escaped the per-file loop the value
\* returned still holds, in input order, the record of every file handled
\* before it (each file that failed to open and each file whose close call
\* returned), and the restore of visibility was attempted.
C4_Retained ==
    (pc = "done" /\ raised) =>
        /\ RestoreAttempted
        /\ \A c \in { calls[p] : p \in CallIdx } :
            ((c.op = "OpenDoc6" /\ c.res = "falsy") \/ (c.op = "CloseDoc" /\ c.res = "ok")) =>
                /\ c.file \in RecIdx
                /\ Rec(c.file)["File Name"] = basename(file_list[c.file])
                /\ IsSuccess(c.file) = (c.op = "CloseDoc")

C4_Witness ==
    /\ pc = "done" /\ raised
    /\ Len(results_list) = 1 /\ IsSuccess(1)
    /\ HasCall(2, "CloseDoc", "raise")
    /\ \E p, q \in FileCalls(0, "DocumentVisible") : calls[p].kind = 1 /\ calls[q].kind = 2

\* C5: a file whose open call returns nothing yields a record with exactly
\* the keys {File Name, Status} and Status "Failed to Open"; no extractor
\* call and no close call is issued for it, and the next call of the batch is
\* the visibility-off call of the next file in input order.
C5_FailedOpen ==
    \A p \in { x \in CallIdx : calls[x].op = "OpenDoc6" /\ calls[x].res = "falsy" } :
        LET k == calls[p].file
        IN  /\ k \in RecIdx
            /\ DOMAIN Rec(k) = {"File Name", "Status"}
            /\ Rec(k)["Status"] = "Failed to Open"
            /\ Rec(k)["File Name"] = basename(file_list[k])
            /\ \A q \in CallIdx :
                calls[q].file = k => calls[q].op \in {"DocumentVisible", "OpenDoc6"}
            /\ p < Len(calls) =>
                /\ k < Len(file_list)
                /\ calls[p + 1].op = "DocumentVisible" /\ ~calls[p + 1].on
                /\ calls[p + 1].file = k + 1
            /\ (pc = "done" /\ k < Len(file_list)) => p < Len(calls)

C5_Witness ==
    /\ pc = "done" /\ Len(results_list) = 2
    /\ HasCall(1, "OpenDoc6", "falsy")
    /\ HasCall(2, "OpenDoc6", "ok") /\ IsSuccess(2)

\* C6: no open call is made while a document opened earlier is still
\* unclosed: between a successful open and any later open call there is a
\* close call for the document opened first.
C6_OneDocumentOpen ==
    LET opens == { x \in CallIdx : calls[x].op = "OpenDoc6" }
    IN  \A p \in opens, q \in opens :
            (p < q /\ calls[p].res = "ok") =>
                \E m \in (p + 1)..(q - 1) :
                    calls[m].op = "CloseDoc" /\ calls[m].file = calls[p].file

C6_Witness ==
    /\ pc = "done"
    /\ HasCall(1, "OpenDoc6", "ok") /\ HasCall(2, "OpenDoc6", "ok")
    /\ HasCall(1, "CloseDoc", "ok")

\* C7 (as claimed): with the properties option enabled get_material is
\* invoked for every file that opened, and the record of an assembly has
\* Material "N/A (Assembly)".
C7_MaterialResolver ==
    get_props =>
        \A k \in RecIdx : IsSuccess(k) =>
            /\ FileCalls(k, "get_material") # {}
            /\ doc_type_of(file_list[k]) # 1 => Rec(k)["Material"] = NA_Assembly

Blank(o) == o.raises \/ strip(o.val) = EmptyText

\* C8 (as claimed): get_custom_property returns the active-configuration
\* value when it is non-blank; when that source is blank or fails it returns
\* the general-custom value when that is non-blank; it returns the empty
\* string only when both sources fail or yield nothing.
C8_TwoSourcesInOrder ==
    u_pc = "ret" =>
        LET first == u_model.cfg[u_name]
            second == u_model.gen[u_name]
        IN  /\ ~Blank(first) => u_ret = first.val
            /\ (Blank(first) /\ ~Blank(second)) => u_ret = second.val
            /\ u_ret = EmptyText => (Blank(first) /\ Blank(second))

Feat(k) == s_feats.list[k]
IsMatch(k) == Feat(k).disp /\ ~Feat(k).tn.raises /\ Feat(k).tn.val = "SheetMetal"
\* the scan gets to feature k
Scanned(k) == s_feats.enum = "ok" /\ \A j \in 1..(k - 1) : Feat(j).disp /\ ~IsMatch(j)
Reached(k) == Scanned(k) /\ IsMatch(k)
Found == \E k \in 1..Len(s_feats.list) : Reached(k)
ThicknessRead(k) == Feat(k).def \in {"ok", "fallback"} /\ ~Feat(k).thk.raises
\* a step the scan performs errors
StepErrors ==
    \/ s_feats.enum = "raise"
    \/ \E k \in 1..Len(s_feats.list) :
        /\ Scanned(k)
        /\ \/ ~Feat(k).disp
           \/ Feat(k).tn.raises
           \/ IsMatch(k) /\ (Feat(k).def = "raise"
                             \/ (Feat(k).def \in {"ok", "fallback"} /\ Feat(k).thk.raises))

SheetMetalApplies == s_pc = "ret" /\ s_get_sm /\ s_doc_type = 1

\* C9 (as claimed): Is Sheet Metal is true only when a sheet-metal feature
\* is found and every step succeeds; if no such feature is found or any step
\* errors the record has Is Sheet Metal = false and Thickness (mm) = 0.
C9_FalseOnAnyError ==
    SheetMetalApplies =>
        /\ s_row["Is Sheet Metal"] => (Found /\ ~StepErrors)
        /\ (~Found \/ StepErrors) =>
            (s_row["Is Sheet Metal"] = FALSE /\ s_row["Thickness (mm)"] = 0)

\* C9 (amended): Is Sheet Metal is true exactly when the enumeration returns
\* a list and the scan reaches a feature whose type name reads "SheetMetal"
\* (a feature whose type name cannot be read is skipped, a feature that
\* cannot be dispatched ends the scan); the scan stops at the first such
\* feature; Thickness (mm) is that feature's thickness in mm when its
\* definition and thickness are read, and 0 otherwise, Is Sheet Metal
\* staying true.
C9_TrueOnceFound ==
    SheetMetalApplies =>
        /\ s_row["Is Sheet Metal"] = Found
        /\ s_row["Thickness (mm)"] =
            IF \E k \in 1..Len(s_feats.list) : Reached(k) /\ ThicknessRead(k)
               THEN LET k == CHOOSE k \in 1..Len(s_feats.list) : Reached(k)
                    IN  round(Feat(k).thk.val, ScaleDiv)
               ELSE 0

C9_Witness ==
    /\ SheetMetalApplies
    /\ Len(s_feats.list) = 2
    /\ Feat(1).tn.raises /\ Reached(2) /\ Feat(2).def = "raise"
    /\ s_row["Is Sheet Metal"] = TRUE /\ s_row["Thickness (mm)"] = 0

\* C10 (as claimed): when process_files returns after obtaining the handle,
\* every visibility-off call that took effect for a kind was followed by a
\* visibility-on call that took effect for that kind.
C10_VisibilityRestored ==
    (pc = "done" /\ swApp) =>
        \A p \in CallIdx :
            (calls[p].op = "DocumentVisible" /\ ~calls[p].on /\ calls[p].res = "ok") =>
                \E q \in CallIdx :
                    /\ q > p /\ calls[q].op = "DocumentVisible" /\ calls[q].on
                    /\ calls[q].kind = calls[p].kind /\ calls[q].res = "ok"

====
